---- MODULE Spec2Model ----
(***************************************************************************)
(* Request handling of noggin's user controller                            *)
(* (noggin/controller/user.py) and of the with_ipa / require_self gates    *)
(* (noggin/utility/__init__.py).                                           *)
(*                                                                         *)
(* One action handles one HTTP request from start to finish.  The          *)
(* persistent state is the browser session and the identity backend (GPG   *)
(* keys on file, OTP tokens issued).  What the last request did is kept in *)
(* observation variables: the backend calls it issued in order, the        *)
(* notifications it flashed, the log entries it wrote and its response.    *)
(*                                                                         *)
(* Strings the code processes (names, GitHub/GitLab usernames) are         *)
(* sequences of one-character strings.  Profile attributes are write-only  *)
(* for these handlers, so the backend keeps only what a handler reads      *)
(* back: the GPG key list and the OTP token counter.  Whether the backend  *)
(* accepts a mutation is the backend's choice (input "outcome").           *)
(***************************************************************************)
EXTENDS Naturals, Sequences, FiniteSets

\* ---------------------------------------------------------------- bounds
MaxLen == 2          \* longest GitHub/GitLab username submitted
MaxTokens == 3       \* OTP tokens the backend issues in one behaviour

\* ------------------------------------------------------------- constants
Users == {"dummy", "other"}            \* identities the backend knows
PathNames == Users \cup {"ghost"}      \* values of the <username> path part
NoUser == "<None>"                     \* session.get('noggin_username') is None
NoUri == 0                             \* session.get('otp_uri') is None
Chars == {"@", "o"}
Firstnames == {<<"D">>, <<"A", "l">>}
Lastnames == {<<"U">>}
GitlabNames == {<<>>, <<"@">>, <<"o">>}
KeyLists == {<<>>, <<"gpg1">>}         \* values of form.gpgkeys.data
Methods == {"GET", "POST"}
NoModMsg == "no modifications to be performed"
OtherMsg == "invalid attribute"
Messages == {NoModMsg, OtherMsg}
\* what a backend mutation call does: succeed, raise BadRequest, or raise
\* a FreeIPAError that is not a BadRequest (Unauthorized, Denied, ...)
Outcomes ==
  {[kind |-> "ok", message |-> ""]}
    \cup [kind : {"BadRequest", "FreeIPAError"}, message : Messages]

Strs(n) == UNION {[1..k -> Chars] : k \in 0..n}

\* the profile forms submitted
ProfileForms ==
  [firstname : Firstnames, lastname : Lastnames, github : Strs(MaxLen),
   gitlab : GitlabNames]
SampleForm ==
  [firstname |-> <<"D">>, lastname |-> <<"U">>, github |-> <<"@", "o">>,
   gitlab |-> <<>>]
FormOutcomes ==
  {[kind |-> "ok", message |-> ""],
   [kind |-> "BadRequest", message |-> OtherMsg]}

VARIABLES session, gpgkeys, tokens, req, calls, flashes, logs, resp,
          invoked, validated, shown
vars == <<session, gpgkeys, tokens, req, calls, flashes, logs, resp,
          invoked, validated, shown>>

\* ------------------------------------------------------------- responses
Redirect(endpoint, username) ==
  [kind |-> "redirect", target |-> endpoint, username |-> username,
   otp_uri |-> NoUri, errors |-> <<>>, blank |-> 0]
Render(template, username, uri, errors, blank) ==
  [kind |-> "render", target |-> template, username |-> username,
   otp_uri |-> uri, errors |-> errors, blank |-> blank]
Abort(code) ==
  [kind |-> "abort", target |-> code, username |-> NoUser,
   otp_uri |-> NoUri, errors |-> <<>>, blank |-> 0]
Unhandled(exc) ==
  [kind |-> "unhandled", target |-> exc, username |-> NoUser,
   otp_uri |-> NoUri, errors |-> <<>>, blank |-> 0]
NoResp ==
  [kind |-> "none", target |-> "", username |-> NoUser,
   otp_uri |-> NoUri, errors |-> <<>>, blank |-> 0]

Flash(message, category) == [message |-> message, category |-> category]
Call(op, username, details) ==
  [op |-> op, username |-> username, details |-> details]
NoDetails == [none |-> TRUE]

\* the result of running (part of) a request: what it did and the state
\* it leaves
Result(sess) ==
  [calls |-> <<>>, flashes |-> <<>>, logs |-> <<>>, resp |-> NoResp,
   sess |-> sess, keys |-> gpgkeys, tok |-> tokens,
   invoked |-> FALSE, validated |-> FALSE]

\* ------------------------------------------------------ utility/__init__
\* noggin.security.ipa.maybe_ipa_session: a backend handle, or None
maybe_ipa_session(sess) == sess.ipa

with_ipa_nogate(sess, handled) ==
  [handled EXCEPT !.calls = <<Call("user_find", "whoami", NoDetails)>> \o @,
                  !.invoked = TRUE]
with_ipa_lookup_first(sess, handled) ==
  IF maybe_ipa_session(sess)
  THEN [handled EXCEPT
          !.calls = <<Call("user_find", "whoami", NoDetails)>> \o @,
          !.invoked = TRUE]
  ELSE [Result(sess) EXCEPT
          !.calls = <<Call("user_find", "whoami", NoDetails)>>,
          !.flashes = <<Flash("Please log in to continue.", "warning")>>,
          !.resp = Redirect("root", NoUser)]
with_ipa(sess, handled) ==
  IF maybe_ipa_session(sess)
  THEN [handled EXCEPT
          !.calls = <<Call("user_find", "whoami", NoDetails)>> \o @,
          !.invoked = TRUE]
  ELSE [Result(sess) EXCEPT
          !.flashes = <<Flash("Please log in to continue.", "warning")>>,
          !.resp = Redirect("root", NoUser)]

\* session.get('noggin_username') != username
not_self_never(sess, username) == FALSE
not_self(sess, username) == sess.noggin_username # username

PermissionDenied(sess, username) ==
  [Result(sess) EXCEPT
     !.flashes = <<Flash("You do not have permission to edit this account.",
                         "danger")>>,
     !.resp = Redirect("user", username)]

\* require_self around a handler f; kwargs has "username" or not
require_self(sess, hasUsername, username, handled) ==
  IF ~hasUsername
  THEN [Result(sess) EXCEPT !.resp = Abort("500")]
  ELSE IF not_self(sess, username)
       THEN PermissionDenied(sess, username)
       ELSE handled

\* user_or_404: ipa.user_show(a_uid=username), abort(404) on NotFound
user_or_404(username) ==
  [calls |-> <<Call("user_show", username, NoDetails)>>,
   found |-> username \in Users]

\* ------------------------------------------------------ controller/user
\* form.validate_on_submit(): the request is a submission and validates
validate_on_submit_unchecked(method, valid) == method = "POST"
validate_on_submit(method, valid) == method = "POST" /\ valid

\* form.errors after validate_on_submit()
FormErrors(method, valid) ==
  IF method = "POST" /\ ~valid THEN <<"field error">> ELSE <<>>

\* str.lstrip('@')
RECURSIVE lstrip(_)
lstrip_once(s) == IF s # <<>> /\ Head(s) = "@" THEN Tail(s) ELSE s
lstrip(s) == IF s # <<>> /\ Head(s) = "@" THEN lstrip(Tail(s)) ELSE s

\* '%s %s' % (first, last)
full_name_nospace(first, last) == first \o last
full_name(first, last) == first \o <<" ">> \o last

\* the details dict user_settings_profile passes to _user_mod (mail,
\* fasircnick, faslocale, fastimezone and fasrhbzemail are passed as
\* submitted and left out)
ProfileDetails(first, last, github, gitlab) ==
  [first_name |-> first, last_name |-> last,
   full_name |-> full_name(first, last),
   display_name |-> full_name(first, last),
   fasgithubusername |-> lstrip(github),
   fasgitlabusername |-> lstrip(gitlab)]

KeysDetails(ssh, gpg) == [ipasshpubkey |-> ssh, fasgpgkeyid |-> gpg]

\* the except clause of _user_mod: what a BadRequest leaves behind
bad_request_always_logs(username, message) ==
  [logs |-> <<[username |-> username, message |-> message]>>,
   flashes |-> <<>>, errors |-> <<message>>]
bad_request(username, message) ==
  IF message = NoModMsg
  THEN [logs |-> <<>>, flashes |-> <<>>, errors |-> <<message>>]
  ELSE [logs |-> <<[username |-> username, message |-> message]>>,
        flashes |-> <<>>, errors |-> <<message>>]

\* _user_mod: result is the redirect it returns, NoResp for None, or the
\* exception that leaves it
_user_mod(username, details, outcome) ==
  LET call == <<Call("user_mod", username, details)>>
  IN CASE outcome.kind = "ok" ->
            [calls |-> call, logs |-> <<>>, errors |-> <<>>,
             flashes |-> <<Flash("Profile has been succesfully updated.",
                                 "success")>>,
             result |-> Redirect("user", username), applied |-> TRUE]
       [] outcome.kind = "BadRequest" ->
            LET b == bad_request(username, outcome.message)
            IN [calls |-> call, logs |-> b.logs, errors |-> b.errors,
                flashes |-> b.flashes, result |-> NoResp,
                applied |-> FALSE]
       [] OTHER ->
            [calls |-> call, logs |-> <<>>, errors |-> <<>>,
             flashes |-> <<>>, result |-> Unhandled(outcome.kind),
             applied |-> FALSE]

\* body of user(ipa, username)
user_body(sess, username) ==
  LET u == user_or_404(username)
      r == [Result(sess) EXCEPT !.calls = u.calls]
  IN IF ~u.found
     THEN [r EXCEPT !.resp = Abort("404")]
     ELSE [r EXCEPT
             !.calls = @ \o <<Call("group_find", username, NoDetails),
                              Call("group_find", username, NoDetails)>>,
             !.resp = Render("user.html", username, NoUri, <<>>, 0)]

\* a settings form handler after the self check: user_or_404, validate,
\* _user_mod, render.  blank is the number of empty entries appended to
\* the field lists when the form has no errors.
form_body(sess, username, sub, details, template, blank, keysAfter) ==
  LET u == user_or_404(username)
      r == [Result(sess) EXCEPT !.calls = u.calls]
  IN IF ~u.found
     THEN [r EXCEPT !.resp = Abort("404")]
     ELSE IF validate_on_submit(sub.method, sub.valid)
          THEN LET m == _user_mod(username, details, sub.outcome)
               IN [r EXCEPT
                     !.validated = TRUE,
                     !.calls = @ \o m.calls,
                     !.flashes = m.flashes,
                     !.logs = m.logs,
                     !.keys = IF m.applied THEN keysAfter ELSE @,
                     !.resp = IF m.result # NoResp
                              THEN m.result
                              ELSE Render(template, username, NoUri,
                                          m.errors,
                                          IF m.errors = <<>>
                                          THEN blank ELSE 0)]
          ELSE LET e == FormErrors(sub.method, sub.valid)
               IN [r EXCEPT
                     !.validated = TRUE,
                     !.resp = Render(template, username, NoUri, e,
                                     IF e = <<>> THEN blank ELSE 0)]

\* body of user_settings_profile(ipa, username)
user_settings_profile_body(sess, username, sub, form) ==
  IF not_self(sess, username)
  THEN PermissionDenied(sess, username)
  ELSE form_body(sess, username, sub,
                 ProfileDetails(form.firstname, form.lastname, form.github,
                                form.gitlab),
                 "user-settings-profile.html", 0, gpgkeys)

\* body of user_settings_keys(ipa, username)
user_settings_keys_body(sess, username, sub, form) ==
  IF not_self(sess, username)
  THEN PermissionDenied(sess, username)
  ELSE form_body(sess, username, sub,
                 KeysDetails(form.sshpubkeys, form.gpgkeys),
                 "user-settings-keys.html", 2,
                 IF username \in Users
                 THEN [gpgkeys EXCEPT ![username] = form.gpgkeys]
                 ELSE gpgkeys)

\* session['otp_uri'] = None
keep_otp_uri(sess) == sess
clear_otp_uri(sess) == [sess EXCEPT !.otp_uri = NoUri]

\* body of user_settings_otp(ipa, username)
user_settings_otp_body(sess, username) ==
  IF not_self(sess, username)
  THEN PermissionDenied(sess, username)
  ELSE LET u == user_or_404(username)
           r == [Result(sess) EXCEPT !.calls = u.calls]
       IN IF ~u.found
          THEN [r EXCEPT !.resp = Abort("404")]
          ELSE [r EXCEPT
                  !.sess = clear_otp_uri(sess),
                  !.calls = @ \o <<Call("otptoken_find", username,
                                        NoDetails)>>,
                  !.resp = Render("user-settings-otp.html", username,
                                  sess.otp_uri, <<>>, 0)]

\* not user.gpgkeys
no_gpgkeys_never(keys) == FALSE
no_gpgkeys(keys) == keys = <<>>

\* the try/except around ipa.otptoken_add: BadRequest is a FreeIPAError,
\* so every backend error kind is caught
otptoken_add(sess, owner, outcome) ==
  LET call == <<Call("otptoken_add", owner,
                     [ipatokenotpalgorithm |-> "sha512"])>>
  IN IF outcome.kind = "ok"
     THEN [calls |-> call, flashes |-> <<>>, logs |-> <<>>,
           sess |-> [sess EXCEPT !.otp_uri = tokens + 1],
           tok |-> tokens + 1]
     ELSE [calls |-> call,
           flashes |-> <<Flash("Cannot create the token.", "danger")>>,
           logs |-> <<[username |-> owner, message |-> outcome.message]>>,
           sess |-> sess, tok |-> tokens]

\* flash(error, 'danger') for every error of form.errors
FlashErrors(errors) ==
  [i \in 1..Len(errors) |-> Flash(errors[i], "danger")]

\* body of user_settings_otp_add(ipa, username); the route is POST only
user_settings_otp_add_body(sess, username, valid, outcome) ==
  IF not_self(sess, username)
  THEN PermissionDenied(sess, username)
  ELSE LET u == user_or_404(username)
           r == [Result(sess) EXCEPT !.calls = u.calls]
       IN IF ~u.found
          THEN [r EXCEPT !.resp = Abort("404")]
          ELSE IF no_gpgkeys(gpgkeys[username])
          THEN [r EXCEPT
                  !.flashes = <<Flash("Cannot create an OTP token without a GPG Key. Please add a GPG Key",
                                      "info")>>,
                  !.resp = Redirect("user_settings_otp", username)]
          ELSE IF validate_on_submit("POST", valid)
          THEN LET a == otptoken_add(sess, sess.noggin_username, outcome)
               IN [r EXCEPT
                     !.validated = TRUE,
                     !.calls = @ \o a.calls,
                     !.flashes = a.flashes,
                     !.logs = a.logs,
                     !.sess = a.sess,
                     !.tok = a.tok,
                     !.resp = Redirect("user_settings_otp",
                                       sess.noggin_username)]
          ELSE [r EXCEPT
                  !.validated = TRUE,
                  !.flashes = FlashErrors(FormErrors("POST", valid)),
                  !.resp = Redirect("user_settings_otp", username)]

\* ------------------------------------------------------ session lifecycle
\* a successful login stores the caller's identity and backend session
login(sess, username) ==
  [sess EXCEPT !.noggin_username = username, !.ipa = TRUE]
\* logout or expiry destroys the session
NoSession == [noggin_username |-> NoUser, otp_uri |-> NoUri, ipa |-> FALSE]

\* ----------------------------------------------------------------- state
NoOutcome == [kind |-> "none", message |-> ""]
Request(route, username, method, valid, outcome, form) ==
  [route |-> route, username |-> username, method |-> method,
   valid |-> valid, outcome |-> outcome, form |-> form,
   sessUser |-> session.noggin_username, ipa |-> session.ipa,
   otp_uri |-> session.otp_uri,
   keys |-> IF username \in Users THEN gpgkeys[username] ELSE <<>>]
NoForm == [none |-> TRUE]

Init ==
  /\ session = NoSession
  /\ gpgkeys \in [Users -> KeyLists]
  /\ tokens = 0
  /\ req = [route |-> "none", username |-> NoUser, method |-> "GET",
            valid |-> FALSE, outcome |-> NoOutcome, form |-> NoForm,
            sessUser |-> NoUser, ipa |-> FALSE, otp_uri |-> NoUri,
            keys |-> <<>>]
  /\ calls = <<>>
  /\ flashes = <<>>
  /\ logs = <<>>
  /\ resp = NoResp
  /\ invoked = FALSE
  /\ validated = FALSE
  /\ shown = [t \in 1..MaxTokens |-> 0]

\* a request r handled with result h
Handle(r, h) ==
  /\ h.tok <= MaxTokens
  /\ req' = r
  /\ session' = h.sess
  /\ gpgkeys' = h.keys
  /\ tokens' = h.tok
  /\ calls' = h.calls
  /\ flashes' = h.flashes
  /\ logs' = h.logs
  /\ resp' = h.resp
  /\ invoked' = h.invoked
  /\ validated' = h.validated
  /\ shown' = IF h.resp.kind = "render" /\ h.resp.otp_uri # NoUri
              THEN [shown EXCEPT ![h.resp.otp_uri] =
                      IF @ < 2 THEN @ + 1 ELSE @]
              ELSE shown

Idle(route) ==
  /\ req' = [req EXCEPT !.route = route, !.username = NoUser,
               !.method = "POST", !.valid = FALSE, !.outcome = NoOutcome,
               !.form = NoForm, !.sessUser = session.noggin_username,
               !.ipa = session.ipa, !.otp_uri = session.otp_uri,
               !.keys = <<>>]
  /\ calls' = <<>>
  /\ flashes' = <<>>
  /\ logs' = <<>>
  /\ resp' = Redirect("root", NoUser)
  /\ invoked' = FALSE
  /\ validated' = FALSE
  /\ UNCHANGED <<gpgkeys, tokens, shown>>

Login ==
  \E u \in Users :
    /\ session.noggin_username = NoUser
    /\ session' = login(session, u)
    /\ Idle("login")

Logout ==
  /\ session.noggin_username # NoUser
  /\ session' = NoSession
  /\ Idle("logout")

user ==
  \E username \in PathNames :
    Handle(Request("user", username, "GET", FALSE, NoOutcome, NoForm),
           with_ipa(session, user_body(session, username)))

\* what a client submits: a GET, or a POST that validates or not and, if
\* the backend is called, the backend's answer
Submissions(outcomes) ==
  {[method |-> "GET", valid |-> FALSE, outcome |-> NoOutcome]}
    \cup [method : {"POST"}, valid : BOOLEAN, outcome : outcomes]

user_settings_profile_on(forms, outcomes) ==
  \E username \in PathNames, sub \in Submissions(outcomes),
     submitted \in forms :
    LET form == IF sub.method = "GET" THEN SampleForm ELSE submitted
    IN Handle(Request("user_settings_profile", username, sub.method,
                      sub.valid, sub.outcome, form),
              with_ipa(session,
                       user_settings_profile_body(session, username, sub,
                                                  form)))

user_settings_profile == user_settings_profile_on({SampleForm}, Outcomes)

user_settings_profile_forms ==
  user_settings_profile_on(ProfileForms, FormOutcomes)

user_settings_keys ==
  \E username \in PathNames, sub \in Submissions(Outcomes),
     gpg \in KeyLists :
    LET form == [sshpubkeys |-> <<"ssh1">>,
                 gpgkeys |-> IF sub.method = "GET" THEN <<>> ELSE gpg]
    IN Handle(Request("user_settings_keys", username, sub.method,
                      sub.valid, sub.outcome, form),
              with_ipa(session,
                       user_settings_keys_body(session, username, sub,
                                               form)))

user_settings_otp ==
  \E username \in PathNames :
    Handle(Request("user_settings_otp", username, "GET", FALSE, NoOutcome,
                   NoForm),
           with_ipa(session, user_settings_otp_body(session, username)))

user_settings_otp_add ==
  \E username \in PathNames, valid \in BOOLEAN, outcome \in Outcomes :
    Handle(Request("user_settings_otp_add", username, "POST", valid,
                   outcome, NoForm),
           with_ipa(session,
                    user_settings_otp_add_body(session, username, valid,
                                               outcome)))

\* a route whose handler f is wrapped in require_self; the route has a
\* username component or, by mistake, none
require_self_route ==
  \E hasUsername \in BOOLEAN, username \in PathNames :
    Handle(Request(IF hasUsername THEN "require_self"
                   ELSE "require_self_misuse",
                   IF hasUsername THEN username ELSE NoUser,
                   "GET", FALSE, NoOutcome, NoForm),
           require_self(session, hasUsername, username,
                        [Result(session) EXCEPT
                           !.invoked = TRUE,
                           !.resp = Render("f", username, NoUri, <<>>, 0)]))

Next ==
  \/ Login
  \/ Logout
  \/ user
  \/ user_settings_profile
  \/ user_settings_keys
  \/ user_settings_otp
  \/ user_settings_otp_add
  \/ require_self_route

Spec == Init /\ [][Next]_vars

\* the profile handler alone, over every form of ProfileForms
NextForms ==
  \/ Login
  \/ Logout
  \/ user_settings_profile_forms

SpecForms == Init /\ [][NextForms]_vars

\* ============================================================ properties
SettingsRoutes ==
  {"user_settings_profile", "user_settings_keys", "user_settings_otp",
   "user_settings_otp_add"}
MutatingRoutes ==
  {"user_settings_profile", "user_settings_keys", "user_settings_otp_add"}
WithIpaRoutes == SettingsRoutes \cup {"user"}
MutationOps == {"user_mod", "otptoken_add"}

CountOps(ops) == Cardinality({i \in 1..Len(calls) : calls[i].op \in ops})
NoMutation == CountOps(MutationOps) = 0
OneFlash(category) == Len(flashes) = 1 /\ flashes[1].category = category
\* the last request's session identity differs from its path identity
Mismatch == req.sessUser # req.username
\* the backend mutation call of the last request raised an error
BackendError ==
  /\ req.route \in MutatingRoutes
  /\ CountOps(MutationOps) > 0
  /\ req.outcome.kind \in {"BadRequest", "FreeIPAError"}
\* the last request submitted a form that failed validation
ValidationFailed ==
  /\ req.route \in MutatingRoutes
  /\ validated
  /\ req.method = "POST"
  /\ ~req.valid

\* C1 as stated: every settings request whose session identity differs from
\* the path identity (an absent identity included) issues no backend
\* mutation, flashes exactly one 'danger' notification and is redirected to
\* the user view of the path identity.
C1_Original ==
  (req.route \in SettingsRoutes /\ Mismatch)
    => /\ NoMutation
       /\ OneFlash("danger")
       /\ resp = Redirect("user", req.username)

\* C1 amended: a mismatching settings request issues no backend mutation;
\* when with_ipa obtained a backend handle it flashes exactly one 'danger'
\* notification and is redirected to the user view of the path identity,
\* and when it did not (as for every session without identity) it flashes
\* exactly one 'warning' notification and is redirected to root.
C1_SelfOnly ==
  (req.route \in SettingsRoutes /\ Mismatch)
    => /\ NoMutation
       /\ req.ipa => /\ OneFlash("danger")
                     /\ resp = Redirect("user", req.username)
       /\ ~req.ipa => /\ OneFlash("warning")
                      /\ resp = Redirect("root", NoUser)

C1_Witness ==
  /\ req.route = "user_settings_keys"
  /\ req.method = "POST"
  /\ req.valid
  /\ req.ipa
  /\ req.sessUser = "dummy"
  /\ req.username = "other"
  /\ resp.kind = "redirect"

\* C2: a request through with_ipa whose session yields no backend handle
\* never invokes the handler, issues no backend mutation, flashes one
\* 'warning' notification and is redirected to root; with a handle the
\* handler is invoked and the caller's identity is looked up exactly once.
C2_WithIpaGate ==
  req.route \in WithIpaRoutes
    => /\ ~req.ipa => /\ ~invoked
                      /\ NoMutation
                      /\ OneFlash("warning")
                      /\ resp = Redirect("root", NoUser)
       /\ req.ipa => /\ invoked
                     /\ CountOps({"user_find"}) = 1
                     /\ calls[1].op = "user_find"

C2_Witness ==
  /\ req.route = "user_settings_otp_add"
  /\ ~req.ipa
  /\ req.valid
  /\ req.outcome.kind = "ok"
  /\ resp.target = "root"

C4_Original ==
  BackendError
    => IF req.outcome.message = NoModMsg
       THEN flashes = <<>>
       ELSE /\ Len(flashes) = 1
            /\ Len(logs) = 1
            /\ logs[1].username = req.username

\* C4 amended: in profile and keys edit no backend error flashes a
\* notification; a BadRequest is attached to the re-rendered form and is
\* logged once with the target identity unless its message is "no
\* modifications to be performed", and an error of another kind leaves
\* _user_mod unlogged; in OTP add every backend error, whatever its
\* message, flashes exactly one 'danger' notification and writes exactly
\* one log entry with the target identity.
C4_ErrorMapping ==
  BackendError
    => IF req.route = "user_settings_otp_add"
       THEN /\ OneFlash("danger")
            /\ Len(logs) = 1
            /\ logs[1].username = req.username
       ELSE /\ flashes = <<>>
            /\ req.outcome.kind = "BadRequest"
                 => /\ resp.kind = "render"
                    /\ resp.errors = <<req.outcome.message>>
                    /\ IF req.outcome.message = NoModMsg
                       THEN logs = <<>>
                       ELSE /\ Len(logs) = 1
                            /\ logs[1].username = req.username
            /\ req.outcome.kind # "BadRequest" => logs = <<>>

C4_Witness ==
  /\ BackendError
  /\ req.route = "user_settings_keys"
  /\ req.outcome.kind = "BadRequest"
  /\ req.outcome.message = NoModMsg
  /\ resp.kind = "render"

\* C5: an OTP add that passes the self-only check for an identity without
\* GPG key runs no validation, issues no add call, flashes one 'info'
\* notification, leaves the session's otp_uri as it was and is redirected
\* to the OTP view; with at least one key the form is validated and, when
\* it validates, the add call is issued.
C5_GpgKeyRequired ==
  (req.route = "user_settings_otp_add" /\ req.ipa /\ ~Mismatch)
    => IF req.keys = <<>>
       THEN /\ ~validated
            /\ CountOps({"otptoken_add"}) = 0
            /\ OneFlash("info")
            /\ session.otp_uri = req.otp_uri
            /\ resp = Redirect("user_settings_otp", req.username)
       ELSE /\ validated
            /\ req.valid => CountOps({"otptoken_add"}) = 1

C5_Witness ==
  /\ req.route = "user_settings_otp_add"
  /\ req.ipa
  /\ ~Mismatch
  /\ req.keys = <<>>
  /\ req.valid
  /\ req.outcome.kind = "ok"
  /\ resp.target = "user_settings_otp"

\* the last request was a profile edit the backend accepted
ProfileEditSucceeded ==
  /\ req.route = "user_settings_profile"
  /\ req.ipa
  /\ ~Mismatch
  /\ req.method = "POST"
  /\ req.valid
  /\ req.outcome.kind = "ok"

\* s is first, one space, last
IsFirstSpaceLast(s, first, last) ==
  /\ Len(s) = Len(first) + 1 + Len(last)
  /\ \A i \in 1..Len(first) : s[i] = first[i]
  /\ s[Len(first) + 1] = " "
  /\ \A i \in 1..Len(last) : s[Len(first) + 1 + i] = last[i]

\* C6: a successful profile edit issues exactly one user_mod call, whose
\* full_name and display_name are first name, one space, last name;
\* it flashes a 'success' notification and is redirected to the user view
\* of the identity.
C6_ProfileEdit ==
  ProfileEditSucceeded
    => /\ CountOps({"user_mod"}) = 1
       /\ \A i \in 1..Len(calls) :
            calls[i].op = "user_mod"
              => /\ calls[i].username = req.username
                 /\ IsFirstSpaceLast(calls[i].details.full_name,
                                     req.form.firstname, req.form.lastname)
                 /\ IsFirstSpaceLast(calls[i].details.display_name,
                                     req.form.firstname, req.form.lastname)
       /\ OneFlash("success")
       /\ resp = Redirect("user", req.username)

C6_Witness ==
  /\ ProfileEditSucceeded
  /\ req.form.firstname = <<"A", "l">>
  /\ resp.kind = "redirect"

\* authorization of the last request failed
AuthorizationFailed ==
  /\ req.route \in WithIpaRoutes
  /\ \/ ~req.ipa
     \/ req.route \in SettingsRoutes /\ Mismatch

\* C7 as stated: a request whose authorization fails is rejected before any
\* backend call, read or mutation, is issued.
C7_Original == AuthorizationFailed => calls = <<>>

\* C7 amended: a request without authenticated session is rejected before
\* with_ipa or the handler issue any backend call; a request whose session
\* identity differs from the path identity is rejected after the single
\* caller lookup of with_ipa (user_find whoami) and before any other
\* backend call.
C7_ShortCircuit ==
  AuthorizationFailed
    => /\ resp.kind = "redirect"
       /\ IF req.ipa
          THEN /\ Len(calls) = 1
               /\ calls[1].op = "user_find"
          ELSE calls = <<>>

C7_Witness ==
  /\ AuthorizationFailed
  /\ req.ipa
  /\ req.route = "user_settings_otp"
  /\ Len(calls) = 1

\* C8: a failure of the backend mutation call is caught at the call site,
\* so no request ends in an unhandled server error; the one server error
\* is the abort(500) of require_self on a route without username.
C8_NoServerError ==
  /\ resp.kind # "unhandled"
  /\ resp = Abort("500") => req.route = "require_self_misuse"

\* C9 as stated: in a mutating handler a form that fails validation leads
\* to no backend mutation call and to the form re-rendered with its field
\* errors, not to a redirect.
C9_Original ==
  ValidationFailed
    => /\ NoMutation
       /\ resp.kind = "render"
       /\ resp.errors # <<>>

\* C9 amended: a form that fails validation leads to no backend mutation
\* call; profile edit and keys edit re-render the form with its field
\* errors; OTP add flashes every field error as 'danger' and redirects to
\* the OTP view.
C9_ValidationFailure ==
  ValidationFailed
    => /\ NoMutation
       /\ IF req.route = "user_settings_otp_add"
          THEN /\ resp = Redirect("user_settings_otp", req.username)
               /\ Len(flashes) >= 1
               /\ \A i \in 1..Len(flashes) : flashes[i].category = "danger"
          ELSE /\ resp.kind = "render"
               /\ resp.errors # <<>>
               /\ flashes = <<>>

C9_Witness ==
  /\ ValidationFailed
  /\ req.route = "user_settings_profile"
  /\ req.outcome.kind = "ok"
  /\ resp.kind = "render"

\* out is inp without its leading '@' characters
IsStripped(inp, out) ==
  /\ \E k \in 0..Len(inp) :
       /\ \A i \in 1..k : inp[i] = "@"
       /\ out = SubSeq(inp, k + 1, Len(inp))
  /\ out = <<>> \/ out[1] # "@"

\* C10: the GitHub and GitLab usernames a profile edit passes to the
\* backend are the submitted values without their leading '@' characters,
\* the rest unchanged, and stripping them again changes nothing.
C10_LeadingAtStripped ==
  req.route = "user_settings_profile"
    => \A i \in 1..Len(calls) :
         calls[i].op = "user_mod"
           => /\ IsStripped(req.form.github,
                            calls[i].details.fasgithubusername)
              /\ IsStripped(req.form.gitlab,
                            calls[i].details.fasgitlabusername)
              /\ IsStripped(calls[i].details.fasgithubusername,
                            calls[i].details.fasgithubusername)
              /\ IsStripped(calls[i].details.fasgitlabusername,
                            calls[i].details.fasgitlabusername)

C10_Witness ==
  /\ ProfileEditSucceeded
  /\ req.form.github = <<"@", "@">>
  /\ req.form.gitlab = <<"@">>
  /\ CountOps({"user_mod"}) = 1
  /\ calls[Len(calls)].details.fasgithubusername = <<>>

====
